---- MODULE Spec2Model ----
(***************************************************************************)
(* A model of the autodiff package: the scalar engine (engine.py) and the  *)
(* network layer built on it (nn.py).                                      *)
(*                                                                         *)
(* Python objects live in an arena: `nodes` is the sequence of all Scalar  *)
(* objects in creation order and a node's index is its identity.  A        *)
(* node's _backward closure is the node's `op` tag together with the       *)
(* operands (`self`, `other`) and the exponent (`power`) it captured.      *)
(* Values are Python ints; the float-valued operations (tanh, gelu, a      *)
(* negative power) are applied only to operands for which IEEE doubles     *)
(* give an integral result.                                                *)
(***************************************************************************)
EXTENDS Integers, Sequences, FiniteSets, TLC

VARIABLES
    nodes,    \* the arena of Scalar objects
    prev,     \* the arena as the last backward() or zero_grad() found it
    calls,    \* the _backward invocations of the last backward(): <<node, grad then>>
    raised,   \* the exception that ended the program, or "none"
    hist,     \* the last two operations (building nodes counts as one)
    net,      \* the MLP: layers of neurons of parameter nodes
    out,      \* the last forward call: its component, input and result
    steps     \* network calls so far: forward calls, backward() calls, and all

vars == <<nodes, prev, calls, raised, hist, net, out, steps>>

\* ---------------------------------------------------------------- bounds

\* Expressions of add, multiply, negate and subtract, one backward().
MaxNodes == 6
MaxLeaves == 3
MaxOps == 3
Vals == {1, 2}

\* Repeated backward() calls on smaller expressions.
MaxAccNodes == 4
MaxAccLeaves == 1
MaxAccOps == 2
MaxAccBackward == 2
AccVals == {0, 1}
AccLits == {3}

\* Power and the activations, on one leaf.
MaxActNodes == 3
MaxActOps == 2
MaxActBackward == 2
MaxOperand == 30
ActVals == {-30, -22, -1, 0, 1, 2, 10, 22, 400}
Powers == {-1, 0, 1, 2, 3}

\* Networks.
MaxIn == 2
MaxWidth == 2
MaxLayers == 2
MaxNetSteps == 4
MaxIters == 2
Seeds == {0, 1, 2}
InVals == {1, 2}
Activations == {"linear", "relu"}

\* ------------------------------------------------------- engine.py: nodes

\* Body(value), with value computed once: a statement's result bound to a
\* name before the next statement runs.
With(value, Body(_)) == CHOOSE r \in {Body(v) : v \in {value}} : TRUE

\* Scalar.__init__ for a leaf: no ancestors, grad 0, a no-op _backward.
Leaf(v) ==
    [op |-> "leaf", value |-> v, grad |-> 0, self |-> 0, other |-> 0, power |-> 0]

\* Scalar.__init__ for the result of an operation, with the closure's captures.
Result(op, v, s, o, p) ==
    [op |-> op, value |-> v, grad |-> 0, self |-> s, other |-> o, power |-> p]

\* _ancestors = set(_ancestors): a set, so x + x has the one ancestor x.
Ancestors(n) == {n.self, n.other} \ {0}

\* An operand of a binary operator: a Scalar (by identity) or a plain number.
Node(i) == [isnode |-> TRUE, v |-> i]
Num(v) == [isnode |-> FALSE, v |-> v]

\* `if not isinstance(other, Scalar): other = Scalar(other)`
Promote(ns, x) ==
    IF x.isnode THEN [ns |-> ns, id |-> x.v]
    ELSE [ns |-> Append(ns, Leaf(x.v)), id |-> Len(ns) + 1]

\* Scalar.__add__: the new node is the last of the returned arena.
AddOp(ns, i, x) ==
    LET p == Promote(ns, x)
    IN  Append(p.ns, Result("add", p.ns[i].value + p.ns[p.id].value, i, p.id, 0))

\* Scalar.__mul__
MulOp(ns, i, x) ==
    LET p == Promote(ns, x)
    IN  Append(p.ns, Result("mul", p.ns[i].value * p.ns[p.id].value, i, p.id, 0))

\* Scalar.__neg__: self * -1
NegOp(ns, i) == MulOp(ns, i, Num(-1))

\* Scalar.__sub__: self + (-other); -other is a node for a Scalar, a number
\* for a number.
SubOp(ns, i, x) ==
    IF x.isnode
    THEN LET n1 == NegOp(ns, x.v) IN AddOp(n1, i, Node(Len(n1)))
    ELSE AddOp(ns, i, Num(-x.v))

\* Python's int ** int for an exponent >= 0.
RECURSIVE IntPow(_, _)
IntPow(a, e) == IF e = 0 THEN 1 ELSE a * IntPow(a, e - 1)

\* a ** e for ints.  A negative exponent gives the float 1 / a ** -e, and
\* raises for a zero base; the quotient is integral for the bases 1 and -1,
\* which are the only non-zero ones a negative exponent is given here.
PyPow(a, e) ==
    IF e >= 0 THEN [err |-> "none", v |-> IntPow(a, e)]
    ELSE IF a = 0 THEN [err |-> "ZeroDivisionError", v |-> 0]
    ELSE [err |-> "none", v |-> IntPow(a, -e)]

PowExact(a, e) == e >= 0 \/ a \in {-1, 0, 1}

\* An operation that raised built nothing.
Raise(ns, e) == [ns |-> ns, err |-> e]
Made(ns) == [ns |-> ns, err |-> "none"]

\* Scalar.__pow__
PowOp(ns, i, power) ==
    LET v == PyPow(ns[i].value, power)
    IN  IF v.err # "none" THEN Raise(ns, v.err)
        ELSE Made(Append(ns, Result("pow", v.v, i, 0, power)))

\* math.exp(t) raises OverflowError for t above ln(DBL_MAX) = 709.78...;
\* arguments are in thousandths.
ExpLimitMilli == 709782
ExpRaises(milli) == milli > ExpLimitMilli

\* (exp(t) - 1) / (exp(t) + 1) in doubles: exp(t) +- 1 is exp(t) itself from
\* t = 36.8 (2^53) on, giving exactly 1.0, and 1 -+ exp(t) is 1 below t = -37.5
\* (2^-54), giving exactly -1.0; at t = 0 it is 0.0.  In between it is no
\* integer, and the model does not go there.  t is in thousandths.
SaturationMilli == 37500
Ratio(milli) ==
    IF milli >= SaturationMilli THEN 1 ELSE IF milli <= -SaturationMilli THEN -1 ELSE 0
RatioExact(milli) == milli = 0 \/ milli >= SaturationMilli \/ milli <= -SaturationMilli

\* Scalar.tanh: y = (math.exp(2 * x) - 1) / (math.exp(2 * x) + 1)
TanhOp(ns, i) ==
    LET x == ns[i].value
    IN  IF ExpRaises(2000 * x) THEN Raise(ns, "OverflowError")
        ELSE Made(Append(ns, Result("tanh", Ratio(2000 * x), i, 0, 0)))

\* Scalar.relu
ReluOp(ns, i) ==
    Made(Append(ns, Result("relu", IF ns[i].value < 0 THEN 0 ELSE ns[i].value, i, 0, 0)))

\* gelu's inner = math.sqrt(2.0 / math.pi) * (x + 0.044715 * x * x * x), in
\* thousandths (sqrt(2 / pi) = 0.798 to three places).
InnerMilli(x) == (((1000000 * x + 44715 * x * x * x) \div 1000) * 798) \div 1000

\* The operands for which gelu and its rule are integral in doubles: the
\* ratio saturated and math.tanh(inner) = 1.0 with the sech term absorbed
\* (inner >= 22), or sech_inner * sech_inner underflowed to 0 (inner <= -373).
SechUnderflowMilli == 373000
TanhOneMilli == 22000
GeluExact(x) ==
    /\ -MaxOperand <= x /\ x <= MaxOperand
    /\ InnerMilli(x) >= TanhOneMilli \/ InnerMilli(x) <= -SechUnderflowMilli

\* Scalar.gelu: y = 0.5 * x * (1 + (exp(2 * inner) - 1) / (exp(2 * inner) + 1))
GeluOp(ns, i) ==
    LET x == ns[i].value
        inner == InnerMilli(x)
    IN  IF ExpRaises(2 * inner) THEN Raise(ns, "OverflowError")
        ELSE Made(Append(ns, Result("gelu", (x * (1 + Ratio(2 * inner))) \div 2, i, 0, 0)))

\* ---------------------------------------------------- engine.py: backward

RECURSIVE Reverse(_)
Reverse(s) == IF s = <<>> THEN <<>> ELSE Append(Reverse(Tail(s)), Head(s))

\* `for v in u._ancestors`: the iteration order of a Python set of objects
\* follows their hashes (addresses); `flip` is the set of nodes whose two
\* ancestors come out second operand first.
AncOrder(ns, u, flip) ==
    LET n == ns[u]
    IN  IF n.self = 0 THEN <<>>
        ELSE IF n.other = 0 \/ n.other = n.self THEN <<n.self>>
        ELSE IF u \in flip THEN <<n.other, n.self>>
        ELSE <<n.self, n.other>>

\* dfs(u): post-order over the ancestor relation with a visited set keyed on
\* identity.  st = [visited, toposort].
RECURSIVE Dfs(_, _, _, _)
RECURSIVE DfsEach(_, _, _, _)
Dfs(ns, u, st, flip) ==
    IF u \in st.visited THEN st
    ELSE LET Visit(st1) == DfsEach(ns, AncOrder(ns, u, flip), st1, flip)
             Record(st2) == [st2 EXCEPT !.toposort = Append(@, u)]
         IN  With(With([st EXCEPT !.visited = @ \cup {u}], Visit), Record)
DfsEach(ns, vs, st, flip) ==
    IF vs = <<>> THEN st
    ELSE LET Rest(st1) == DfsEach(ns, Tail(vs), st1, flip)
         IN  With(Dfs(ns, Head(vs), st, flip), Rest)

\* A variant that leaves the order as dfs appends it, ancestors first, which
\* C2 tells from Toposort followed by reversed().
AncestorsFirst(ns, root, flip) ==
    Reverse(Dfs(ns, root, [visited |-> {}, toposort |-> <<>>], flip).toposort)

Toposort(ns, root, flip) ==
    Dfs(ns, root, [visited |-> {}, toposort |-> <<>>], flip).toposort

\* A variant of the add rule that assigns (=) where the code accumulates
\* (+=), which C1 tells from AddBackward.
AddAssigns(ns, i) ==
    LET n  == ns[i]
        n1 == [ns EXCEPT ![n.self].grad = ns[i].grad]
    IN  [n1 EXCEPT ![n.other].grad = n1[i].grad]

\* A variant of the multiply rule that scales by the operand's own value,
\* which C7 tells from MulBackward.
MulByOwnValue(ns, i) ==
    LET n  == ns[i]
        n1 == [ns EXCEPT ![n.self].grad = @ + ns[n.self].value * ns[i].grad]
    IN  [n1 EXCEPT ![n.other].grad = @ + n1[n.other].value * n1[i].grad]

\* node._backward(): the closure of node i run on arena ns.
AddBackward(ns, i) ==
    LET n  == ns[i]
        n1 == [ns EXCEPT ![n.self].grad = @ + ns[i].grad]
    IN  [n1 EXCEPT ![n.other].grad = @ + n1[i].grad]

MulBackward(ns, i) ==
    LET n  == ns[i]
        n1 == [ns EXCEPT ![n.self].grad = @ + ns[n.other].value * ns[i].grad]
    IN  [n1 EXCEPT ![n.other].grad = @ + n1[n.self].value * n1[i].grad]

\* power * self.value ** (power - 1): the power is taken first, and 0 times
\* a finite float is 0.
PowCoefficient(a, power) ==
    LET v == PyPow(a, power - 1)
    IN  IF v.err # "none" THEN v
        ELSE [err |-> "none", v |-> IF power = 0 THEN 0 ELSE power * v.v]

PowBackward(ns, i) ==
    LET n == ns[i]
        c == PowCoefficient(ns[n.self].value, n.power)
    IN  IF c.err # "none" THEN Raise(ns, c.err)
        ELSE Made([ns EXCEPT ![n.self].grad = @ + c.v * ns[i].grad])

\* self.grad += (1 - y**2) * res.grad, y the value computed forward
TanhBackward(ns, i) ==
    LET n == ns[i]
    IN  [ns EXCEPT ![n.self].grad = @ + (1 - n.value * n.value) * ns[i].grad]

\* A variant of the relu rule that passes the grad on at 0 (>= for >), which
\* C9 tells from ReluBackward.
ReluPassesAtZero(ns, i) ==
    LET n == ns[i]
    IN  [ns EXCEPT ![n.self].grad = @ + (IF n.value >= 0 THEN 1 ELSE 0) * ns[i].grad]

\* self.grad += (res.value > 0) * res.grad
ReluBackward(ns, i) ==
    LET n == ns[i]
    IN  [ns EXCEPT ![n.self].grad = @ + (IF n.value > 0 THEN 1 ELSE 0) * ns[i].grad]

\* gelu's rule: math.exp(inner) + math.exp(-inner) may overflow; otherwise
\* the factor is 0.5 * (1 + math.tanh(inner)) plus a term that is absorbed or
\* underflows.
GeluBackward(ns, i) ==
    LET n == ns[i]
        inner == InnerMilli(ns[n.self].value)
    IN  IF ExpRaises(inner) \/ ExpRaises(-inner) THEN Raise(ns, "OverflowError")
        ELSE Made([ns EXCEPT ![n.self].grad =
                        @ + (IF inner >= TanhOneMilli THEN 1 ELSE 0) * ns[i].grad])

LocalBackward(ns, i) ==
    CASE ns[i].op = "add" -> Made(AddBackward(ns, i))
      [] ns[i].op = "mul" -> Made(MulBackward(ns, i))
      [] ns[i].op = "pow" -> PowBackward(ns, i)
      [] ns[i].op = "tanh" -> Made(TanhBackward(ns, i))
      [] ns[i].op = "relu" -> Made(ReluBackward(ns, i))
      [] ns[i].op = "gelu" -> GeluBackward(ns, i)
      [] OTHER -> Made(ns)

\* `for node in reversed(toposort): node._backward()`; an exception ends it.
RECURSIVE RunRules(_, _, _)
RunRules(ns, order, log) ==
    IF order = <<>> THEN [ns |-> ns, calls |-> log, err |-> "none"]
    ELSE LET i == Head(order)
             l == Append(log, <<i, ns[i].grad>>)
             Rest(r) == IF r.err # "none" THEN [ns |-> r.ns, calls |-> l, err |-> r.err]
                        ELSE RunRules(r.ns, Tail(order), l)
         IN  With(LocalBackward(ns, i), Rest)

\* A variant that resets every grad before it runs, which C3 tells from
\* BackwardOp.
BackwardFromZero(ns, root, flip) ==
    LET toposort == Toposort(ns, root, flip)
        seeded   == [i \in 1..Len(ns) |-> [ns[i] EXCEPT !.grad = IF i = root THEN 1 ELSE 0]]
    IN  RunRules(seeded, Reverse(toposort), <<>>)

\* Scalar.backward
BackwardOp(ns, root, flip) ==
    LET toposort == Toposort(ns, root, flip)
        seeded   == [ns EXCEPT ![root].grad = 1]
    IN  RunRules(seeded, Reverse(toposort), <<>>)

\* ------------------------------------------------------------------ nn.py

\* The k-th draw of random.uniform(-1, 1) after seeding: a weight in [-1, 1].
Uniform(seed, k) == ((seed * (k + 1) + k) % 3) - 1

\* Neuron.__init__: n_inputs weights drawn in order, then the bias Scalar(0).
\* rng = [seed, k], k the draws made so far.
RECURSIVE Weights(_, _, _)
Weights(ns, rng, n) ==
    IF n = 0 THEN ns
    ELSE Weights(Append(ns, Leaf(Uniform(rng.seed, rng.k))),
                 [rng EXCEPT !.k = @ + 1], n - 1)

NeuronInit(ns, rng, n_inputs, activation) ==
    [ns |-> Append(Weights(ns, rng, n_inputs), Leaf(0)),
     rng |-> [rng EXCEPT !.k = @ + n_inputs],
     made |-> [weights |-> [i \in 1..n_inputs |-> Len(ns) + i],
               bias |-> Len(ns) + n_inputs + 1,
               activation |-> activation]]

\* Layer.__init__: n_outputs neurons of n_inputs weights each.
RECURSIVE LayerInit(_, _, _, _, _, _)
LayerInit(ns, rng, n_inputs, n_outputs, activation, neurons) ==
    IF n_outputs = 0 THEN [ns |-> ns, rng |-> rng, made |-> neurons]
    ELSE LET Rest(n) == LayerInit(n.ns, n.rng, n_inputs, n_outputs - 1, activation,
                                  Append(neurons, n.made))
         IN  With(NeuronInit(ns, rng, n_inputs, activation), Rest)

\* MLP.__init__: layer i takes layer_sizes[i] inputs and gives layer_sizes[i + 1].
RECURSIVE MLPInit(_, _, _, _, _, _)
MLPInit(ns, rng, layer_sizes, activations, i, layers) ==
    IF i > Len(activations) THEN [ns |-> ns, rng |-> rng, made |-> layers]
    ELSE LET Rest(l) == MLPInit(l.ns, l.rng, layer_sizes, activations, i + 1,
                                Append(layers, l.made))
         IN  With(LayerInit(ns, rng, layer_sizes[i], layer_sizes[i + 1],
                            activations[i], <<>>), Rest)

\* Neuron.parameters, Layer.parameters, MLP.parameters
NeuronParameters(neuron) == Append(neuron.weights, neuron.bias)

RECURSIVE LayerParameters(_)
LayerParameters(neurons) ==
    IF neurons = <<>> THEN <<>>
    ELSE NeuronParameters(Head(neurons)) \o LayerParameters(Tail(neurons))

RECURSIVE MLPParameters(_)
MLPParameters(layers) ==
    IF layers = <<>> THEN <<>>
    ELSE LayerParameters(Head(layers)) \o MLPParameters(Tail(layers))

\* Variants of zero_grad(): one resets every node, which C6 tells from
\* ZeroGradOp, and one resets none, which C10 does.
ZeroEveryGrad(ns, parameters) == [i \in 1..Len(ns) |-> [ns[i] EXCEPT !.grad = 0]]
KeepGrads(ns, parameters) == ns

\* Module.zero_grad: `for p in self.parameters(): p.grad = 0`
RECURSIVE ZeroGradOp(_, _)
ZeroGradOp(ns, parameters) ==
    IF parameters = <<>> THEN ns
    ELSE ZeroGradOp([ns EXCEPT ![Head(parameters)].grad = 0], Tail(parameters))

\* What a call is given or returns: a sequence of operands, or one Scalar
\* that is not in a list.
List(items) == [single |-> FALSE, items |-> items]
Single(i) == [single |-> TRUE, items |-> <<Node(i)>>]

\* [wi * xi for wi, xi in zip(self.weights, x)]: zip stops at the shorter.
RECURSIVE Products(_, _, _, _)
Products(ns, weights, xs, made) ==
    IF weights = <<>> \/ xs = <<>> THEN [ns |-> ns, made |-> made]
    ELSE LET Rest(n1) == Products(n1, Tail(weights), Tail(xs), Append(made, Len(n1)))
         IN  With(MulOp(ns, Head(weights), Head(xs)), Rest)

\* sum(products, self.bias): start + p1 + p2 + ..., left to right.
RECURSIVE Sum(_, _, _)
Sum(ns, products, start) ==
    IF products = <<>> THEN [ns |-> ns, y |-> start]
    ELSE LET Rest(n1) == Sum(n1, Tail(products), Len(n1))
         IN  With(AddOp(ns, start, Node(Head(products))), Rest)

\* Neuron.__call__; y = 0 stands for None (no branch taken).  zip raises
\* for an x that is one Scalar.
NeuronCall(ns, neuron, x) ==
    IF x.single THEN [ns |-> ns, err |-> "TypeError", y |-> 0]
    ELSE LET Added(p) == Sum(p.ns, p.made, neuron.bias)
             Returned(a) == [ns |-> a.ns, err |-> a.err, y |-> Len(a.ns)]
             Activated(s) ==
                 CASE neuron.activation = "linear" -> [ns |-> s.ns, err |-> "none", y |-> s.y]
                   [] neuron.activation = "tanh" -> With(TanhOp(s.ns, s.y), Returned)
                   [] neuron.activation = "relu" -> With(ReluOp(s.ns, s.y), Returned)
                   [] neuron.activation = "gelu" -> With(GeluOp(s.ns, s.y), Returned)
                   [] OTHER -> [ns |-> s.ns, err |-> "none", y |-> 0]
         IN  With(With(Products(ns, neuron.weights, x.items, <<>>), Added), Activated)

\* outputs = [neuron(x) for neuron in self.neurons]
RECURSIVE Outputs(_, _, _, _)
Outputs(ns, neurons, x, outputs) ==
    IF neurons = <<>> THEN [ns |-> ns, err |-> "none", outputs |-> outputs]
    ELSE LET Rest(n) ==
                 IF n.err # "none" THEN [ns |-> n.ns, err |-> n.err, outputs |-> outputs]
                 ELSE Outputs(n.ns, Tail(neurons), x, Append(outputs, Node(n.y)))
         IN  With(NeuronCall(ns, Head(neurons), x), Rest)

\* Layer.__call__: outputs[0] if len(outputs) == 1 else outputs
LayerCall(ns, neurons, x) ==
    LET Returned(o) ==
            [ns |-> o.ns, err |-> o.err,
             y |-> IF Len(o.outputs) = 1 THEN Single(o.outputs[1].v) ELSE List(o.outputs)]
    IN  With(Outputs(ns, neurons, x, <<>>), Returned)

\* MLP.__call__: y = x; for layer in self.layers: y = layer(y)
RECURSIVE MLPCall(_, _, _)
MLPCall(ns, layers, y) ==
    IF layers = <<>> THEN [ns |-> ns, err |-> "none", y |-> y]
    ELSE LET Rest(l) == IF l.err # "none" THEN [ns |-> l.ns, err |-> l.err, y |-> y]
                        ELSE MLPCall(l.ns, Tail(layers), l.y)
         IN  With(LayerCall(ns, Head(layers), y), Rest)

\* ------------------------------------------------------------ the program

Ids == 1..Len(nodes)
NoOut == [comp |-> <<0, 0>>, x |-> <<>>, single |-> FALSE, items |-> <<>>]
NoSteps == [forward |-> 0, backward |-> 0, all |-> 0]
NBackward == Cardinality({k \in 1..Len(hist) : hist[k].op = "backward"})
NOps == Cardinality({i \in Ids : nodes[i].self # 0})
Shift(h, e) == IF Len(h) < 2 THEN Append(h, e) ELSE <<h[2], e>>
Op(name, arg) == [op |-> name, arg |-> arg, comp |-> <<0, 0>>]
OpOn(name, c) == [op |-> name, arg |-> 0, comp |-> c]

\* What bounds one specification: the literals its operators may be given,
\* and how many operations, nodes and backward() calls a run has.
Arith == [lits |-> {}, ops |-> MaxOps, nodes |-> MaxNodes, back |-> 1]
Accum == [lits |-> AccLits, ops |-> MaxAccOps, nodes |-> MaxAccNodes,
          back |-> MaxAccBackward]
Act == [lits |-> {}, ops |-> MaxActOps, nodes |-> MaxActNodes, back |-> MaxActBackward]

\* The second operand of a binary operator: a node, or a number to promote.
\* a + b and b + a build nodes that differ only in which operand the closure
\* calls self, and both rules are symmetric in them, so for add and multiply
\* node operands are taken up to that swap.
Operands(b) == {Node(j) : j \in Ids} \cup {Num(v) : v \in b.lits}
UpTo(i, x) == x.isnode => i <= x.v

\* The nodes reachable from u over the ancestor relation, u included.
RECURSIVE Reach(_, _)
Reach(ns, u) == {u} \cup UNION {Reach(ns, v) : v \in Ancestors(ns[u])}

\* The nodes with two distinct ancestors that a traversal from root meets.
Forks(ns, root) ==
    {u \in Reach(ns, root) : ns[u].self # 0 /\ ns[u].other # 0 /\ ns[u].other # ns[u].self}

\* The program starts with its leaves made: Scalar(v) for each.  Leaves are
\* interchangeable, so they are listed by value.
Leaves(vals, most) ==
    UNION {{f \in [1..n -> {Leaf(v) : v \in vals}] :
               \A i \in 1..(n - 1) : f[i].value <= f[i + 1].value} : n \in 1..most}

Start(leaves) ==
    /\ nodes \in leaves
    /\ prev = nodes
    /\ calls = <<>>
    /\ raised = "none"
    /\ hist = <<>>
    /\ net = <<>>
    /\ out = NoOut
    /\ steps = NoSteps

\* An operator call that built the arena ns.  Building commutes with
\* backward() (it reads no grad and backward() reads no node made later), so
\* runs build first.
Building(b) == raised = "none" /\ NBackward = 0 /\ NOps < b.ops
Built(ns, b) ==
    /\ Len(ns) <= b.nodes
    /\ nodes' = ns
    /\ prev' = ns
    /\ hist' = <<Op("build", 0)>>
    /\ UNCHANGED <<calls, raised, net, out, steps>>

\* Operands are kept small, so that no model value leaves TLC's integers.
Small(i) == -MaxOperand <= nodes[i].value /\ nodes[i].value <= MaxOperand
Fit(i, x) == Small(i) /\ (x.isnode => Small(x.v))

Add(b) ==
    /\ Building(b)
    /\ \E i \in Ids, x \in Operands(b) :
          UpTo(i, x) /\ Fit(i, x) /\ Built(AddOp(nodes, i, x), b)
Mul(b) ==
    /\ Building(b)
    /\ \E i \in Ids, x \in Operands(b) :
          UpTo(i, x) /\ Fit(i, x) /\ Built(MulOp(nodes, i, x), b)
Neg(b) ==
    /\ Building(b)
    /\ \E i \in Ids : Small(i) /\ Built(NegOp(nodes, i), b)
Sub(b) ==
    /\ Building(b)
    /\ \E i \in Ids, x \in Operands(b) : Fit(i, x) /\ Built(SubOp(nodes, i, x), b)

\* An operator call that may raise: r is what it returned.
Tried(r, b) ==
    /\ Len(r.ns) <= b.nodes
    /\ nodes' = r.ns
    /\ prev' = r.ns
    /\ raised' = r.err
    /\ hist' = <<Op("build", 0)>>
    /\ UNCHANGED <<calls, net, out, steps>>

Pow(b) ==
    /\ Building(b)
    /\ \E i \in Ids, power \in Powers :
          /\ Small(i) /\ PowExact(nodes[i].value, power)
          /\ power = 0 \/ PowExact(nodes[i].value, power - 1)
          /\ Tried(PowOp(nodes, i, power), b)
Tanh(b) ==
    /\ Building(b)
    /\ \E i \in Ids : RatioExact(2000 * nodes[i].value) /\ Tried(TanhOp(nodes, i), b)
Relu(b) ==
    /\ Building(b)
    /\ \E i \in Ids : Tried(ReluOp(nodes, i), b)
Gelu(b) ==
    /\ Building(b)
    /\ \E i \in Ids : GeluExact(nodes[i].value) /\ Tried(GeluOp(nodes, i), b)

Backward(b) ==
    /\ raised = "none"
    /\ NBackward < b.back
    /\ \E root \in Ids : \E flip \in SUBSET Forks(nodes, root) :
          \E r \in {BackwardOp(nodes, root, flip)} :
              /\ nodes' = r.ns
              /\ calls' = r.calls
              /\ raised' = r.err
              /\ prev' = nodes
              /\ hist' = Shift(hist, Op("backward", root))
    /\ UNCHANGED <<net, out, steps>>

Init == Start(Leaves(Vals, MaxLeaves))
Next == Add(Arith) \/ Mul(Arith) \/ Neg(Arith) \/ Sub(Arith) \/ Backward(Arith)
Spec == Init /\ [][Next]_vars

InitAccum == Start(Leaves(AccVals, MaxAccLeaves))
NextAccum == Add(Accum) \/ Mul(Accum) \/ Neg(Accum) \/ Sub(Accum) \/ Backward(Accum)
SpecAccum == InitAccum /\ [][NextAccum]_vars

InitAct == Start(Leaves(ActVals, 1))
NextAct ==
    \/ Pow(Act) \/ Tanh(Act) \/ Relu(Act) \/ Gelu(Act) \/ Add(Act) \/ Mul(Act)
    \/ Backward(Act)
SpecAct == InitAct /\ [][NextAct]_vars

\* ---------------------------------------------------- programs over an MLP

\* A component of the network: the MLP <<0, 0>>, layer l <<l, 0>>, or neuron
\* j of layer l <<l, j>>.
Components ==
    {<<0, 0>>} \cup {<<l, 0>> : l \in 1..Len(net)}
               \cup {<<l, j>> : l \in 1..Len(net), j \in 1..MaxWidth}
Exists(c) == IF c[2] = 0 THEN TRUE ELSE c[2] <= Len(net[c[1]])
Parameters(c) ==
    IF c[1] = 0 THEN MLPParameters(net)
    ELSE IF c[2] = 0 THEN LayerParameters(net[c[1]])
    ELSE NeuronParameters(net[c[1]][c[2]])

NInputs == Len(net[1][1].weights)
NParameters == Len(MLPParameters(net))

\* The caller's inputs: the n_inputs leaves it made beside the network, or
\* as many plain numbers.
InputNodes == [i \in 1..NInputs |-> Node(NParameters + i)]
Numbers(v) == [i \in 1..Len(v) |-> Num(v[i])]
SameInputs == {InputNodes, Numbers([i \in 1..NInputs |-> nodes[NParameters + i].value])}
AnyInputs == {InputNodes} \cup {Numbers(v) : v \in [1..NInputs -> InVals]}

\* What bounds one specification: how many forward calls, and calls in all, a
\* run has, and whether each call is given new numbers.
Calls == [forward |-> 1, backward |-> 1, all |-> MaxNetSteps, first |-> TRUE]
Loop == [forward |-> MaxIters, backward |-> MaxIters, all |-> 3 * MaxIters, first |-> FALSE]
More(b) == raised = "none" /\ steps.all < b.all

Dims == UNION {[1..k -> 1..MaxWidth] : k \in 1..MaxLayers}

\* MLP(n_inputs, output_dims, activations) and the caller's input leaves.
StartNet(widths) ==
    \E n_inputs \in 1..MaxIn, output_dims \in widths, seed \in Seeds :
    \E activations \in [1..Len(output_dims) -> Activations] :
    \E xs \in [1..n_inputs -> InVals] :
    \E m \in {MLPInit(<<>>, [seed |-> seed, k |-> 0], <<n_inputs>> \o output_dims,
                        activations, 1, <<>>)} :
            /\ nodes = m.ns \o [i \in 1..n_inputs |-> Leaf(xs[i])]
            /\ net = m.made
            /\ prev = nodes
            /\ calls = <<>>
            /\ raised = "none"
            /\ hist = <<>>
            /\ out = NoOut
            /\ steps = NoSteps

\* A forward call of component c on x returned r.
Called(c, x, r) ==
    /\ nodes' = r.ns
    /\ prev' = r.ns
    /\ raised' = r.err
    /\ out' = IF r.err # "none" THEN NoOut
              ELSE [comp |-> c, x |-> x, single |-> r.y.single, items |-> r.y.items]
    /\ hist' = Shift(hist, OpOn("forward", c))
    /\ steps' = [steps EXCEPT !.forward = @ + 1, !.all = @ + 1]
    /\ UNCHANGED <<calls, net>>

\* network(x)
Forward(b) ==
    /\ More(b)
    /\ steps.forward < b.forward
    /\ \E x \in (IF b.first THEN SameInputs ELSE AnyInputs) :
          \E r \in {MLPCall(nodes, net, List(x))} : Called(<<0, 0>>, x, r)

\* neuron(x), for a neuron of the network and an x of its width
CallNeuron(b) ==
    /\ More(b)
    /\ steps.forward < b.forward
    /\ \E l \in 1..Len(net), j \in 1..MaxWidth :
          /\ Exists(<<l, j>>)
          /\ Len(net[l][j].weights) = NInputs
          /\ \E x \in SameInputs :
                \E r \in {NeuronCall(nodes, net[l][j], List(x))} :
                    Called(<<l, j>>, x, [ns |-> r.ns, err |-> r.err, y |-> Single(r.y)])

\* component.zero_grad().  It commutes with a forward call (which reads no
\* grad, and whose nodes zero_grad() does not touch), so where first says so
\* runs make their forward call first.
ZeroGrad(cs, b) ==
    /\ More(b)
    /\ b.first => steps.forward > 0
    /\ \E c \in cs :
          /\ Exists(c)
          /\ nodes' = ZeroGradOp(nodes, Parameters(c))
          /\ hist' = Shift(hist, OpOn("zero_grad", c))
    /\ prev' = nodes
    /\ steps' = [steps EXCEPT !.all = @ + 1]
    /\ UNCHANGED <<calls, raised, net, out>>

\* output.backward() on a node the last forward call returned.  The
\* traversal's set iterations come out all in operand order or all reversed.
BackwardOut(b) ==
    /\ More(b)
    /\ steps.backward < b.backward
    /\ \E k \in 1..Len(out.items) :
          LET root == out.items[k].v
          IN  \E flip \in {{}, Forks(nodes, root)} :
                 \E r \in {BackwardOp(nodes, root, flip)} :
                     /\ nodes' = r.ns
                     /\ calls' = r.calls
                     /\ raised' = r.err
                     /\ hist' = Shift(hist, Op("backward", root))
    /\ prev' = nodes
    /\ steps' = [steps EXCEPT !.backward = @ + 1, !.all = @ + 1]
    /\ UNCHANGED <<net, out>>

\* Any calls on any network, a bounded number of them.
InitNet == StartNet(Dims)
NextNet == Forward(Calls) \/ CallNeuron(Calls) \/ ZeroGrad(Components, Calls) \/ BackwardOut(Calls)
SpecNet == InitNet /\ [][NextNet]_vars

\* The caller's training loop on a network of one output: zero_grad(), a
\* forward pass, backward() on its output, again.
InitTrain == StartNet({d \in Dims : d[Len(d)] = 1})
LastName == IF hist = <<>> THEN "none" ELSE hist[Len(hist)].op
TrainZeroGrad == LastName \in {"none", "backward"} /\ ZeroGrad({<<0, 0>>}, Loop)
TrainForward == LastName = "zero_grad" /\ Forward(Loop)
TrainBackward == LastName = "forward" /\ BackwardOut(Loop)
NextTrain == TrainZeroGrad \/ TrainForward \/ TrainBackward
SpecTrain == InitTrain /\ [][NextTrain]_vars

\* ------------------------------------------------------------- the claims

LastOp == IF hist = <<>> THEN Op("none", 0) ELSE hist[Len(hist)]
Root == LastOp.arg
AfterBackward == LastOp.op = "backward" /\ raised = "none"

\* The local partial derivative of node d with respect to its operand in
\* slot "self" or "other".
Partial(ns, d, slot) ==
    CASE ns[d].op = "add" -> 1
      [] ns[d].op = "mul" ->
            IF slot = "self" THEN ns[ns[d].other].value ELSE ns[ns[d].self].value
      [] OTHER -> 0

Slots(ns, d) ==
    IF ns[d].self = 0 THEN {} ELSE IF ns[d].other = 0 THEN {"self"} ELSE {"self", "other"}
ArgOf(ns, d, slot) == IF slot = "self" THEN ns[d].self ELSE ns[d].other

RECURSIVE SumOver(_, _, _)
SumOver(S, F(_), acc) ==
    IF S = {} THEN acc
    ELSE LET e == CHOOSE e \in S : TRUE IN SumOver(S \ {e}, F, acc + F(e))

\* The sum over all paths from u down to n of the product of the local
\* partial derivatives along the path.
RECURSIVE PathSum(_, _, _)
PathSum(ns, u, n) ==
    IF u = n THEN 1
    ELSE LET Term(slot) == Partial(ns, u, slot) * PathSum(ns, ArgOf(ns, u, slot), n)
         IN  SumOver(Slots(ns, u), Term, 0)

ZeroBefore == \A i \in 1..Len(prev) : prev[i].grad = 0

\* C1: after root.backward() on grads that were all 0, the grad of every node
\* reachable from the root is the analytic partial derivative of the root
\* with respect to it: the sum over all paths of the products of the local
\* partial derivatives.
C1_GradIsDerivative ==
    (AfterBackward /\ ZeroBefore) =>
        \A n \in Reach(nodes, Root) : nodes[n].grad = PathSum(nodes, Root, n)

\* d = (a*b) + (a*c) with b.value # c.value, and a.grad = b.value + c.value.
C1_Witness ==
    /\ AfterBackward /\ ZeroBefore
    /\ nodes[Root].op = "add"
    /\ LET l == nodes[Root].self
           r == nodes[Root].other
       IN  /\ l # r /\ nodes[l].op = "mul" /\ nodes[r].op = "mul"
           /\ \E a, b, c \in Ids :
                 /\ Cardinality({a, b, c}) = 3
                 /\ nodes[a].op = "leaf" /\ nodes[b].op = "leaf" /\ nodes[c].op = "leaf"
                 /\ Ancestors(nodes[l]) = {a, b}
                 /\ Ancestors(nodes[r]) = {a, c}
                 /\ nodes[b].value # nodes[c].value
                 /\ nodes[a].grad = nodes[b].value + nodes[c].value

Position(n) == CHOOSE k \in 1..Len(calls) : calls[k][1] = n
Invoked(n) == {k \in 1..Len(calls) : calls[k][1] = n}

\* C2: backward() invokes the rule of every node reachable from the root
\* exactly once, of no other node, the root's first, and a node's only after
\* those of all its dependents reachable from the root.
C2_EachOnceInOrder ==
    AfterBackward =>
        /\ \A n \in Ids :
              Cardinality(Invoked(n)) = (IF n \in Reach(nodes, Root) THEN 1 ELSE 0)
        /\ calls[1][1] = Root
        /\ \A d \in Reach(nodes, Root) : \A n \in Ancestors(nodes[d]) :
              Position(d) < Position(n)

\* A backward() over a node with two dependents, two distinct reachable
\* nodes of equal value, and a node the root does not reach.
C2_Witness ==
    /\ AfterBackward
    /\ \E n \in Reach(nodes, Root) :
          Cardinality({d \in Reach(nodes, Root) : n \in Ancestors(nodes[d])}) >= 2
    /\ \E m, n \in Reach(nodes, Root) : m # n /\ nodes[m].value = nodes[n].value
    /\ Reach(nodes, Root) # Ids

\* What the invocation calls[k] added to the grad of n.
Added(k, n) ==
    LET d == calls[k][1]
        g == calls[k][2]
        Term(slot) == IF ArgOf(nodes, d, slot) = n THEN Partial(nodes, d, slot) * g ELSE 0
    IN  SumOver(Slots(nodes, d), Term, 0)

Contributions(n) ==
    LET Term(k) == Added(k, n) IN SumOver(1..Len(calls), Term, 0)

\* C3 (as amended): backward() resets no grad.  After root.backward() the
\* root's grad is 1 whatever it was, every other reachable node's grad is its
\* grad before the call plus, for each use of it by a reachable dependent,
\* the local partial derivative times the dependent's grad when the
\* dependent's rule ran, and no other node's grad changes.
C3_Accumulates ==
    AfterBackward =>
        /\ nodes[Root].grad = 1
        /\ \A n \in Reach(nodes, Root) \ {Root} :
              nodes[n].grad = prev[n].grad + Contributions(n)
        /\ \A n \in Ids \ Reach(nodes, Root) : nodes[n].grad = prev[n].grad

\* A backward() on a root whose grad was neither 0 nor 1, over a node that
\* already held a grad and now holds a larger one.
C3_Witness ==
    /\ AfterBackward
    /\ prev[Root].grad \notin {0, 1}
    /\ \E n \in Reach(nodes, Root) \ {Root} :
          prev[n].grad > 0 /\ nodes[n].grad > prev[n].grad

TwiceOnSameRoot ==
    /\ Len(hist) = 2 /\ hist[1].op = "backward" /\ hist[2] = hist[1]
    /\ raised = "none"

\* C3 as stated: the accumulation above and, in particular, a second
\* backward() on the same root leaves no grad of the first call in place
\* (read for the nodes other than the root that hold a grad after the first
\* call).
C3_AsStated ==
    /\ C3_Accumulates
    /\ TwiceOnSameRoot =>
          \A n \in Reach(nodes, Root) \ {Root} :
              prev[n].grad # 0 => nodes[n].grad # prev[n].grad

\* ------------------------------------------- claims on power and activations

\* C5: no engine operation raises: whatever the operand and the constant
\* exponent, building add, multiply, power, tanh, relu and gelu nodes and
\* running backward() over them completes.
C5_NeverRaises == raised = "none"

\* C8: for an integer a and a constant integer p >= 0 the node a_node ** p has
\* the value a ** p and the one ancestor a_node, and backward() on it, grads
\* all 0 before, completes with a_node.grad = p * a ** (p - 1), which is 0
\* for p = 0.
C8_PowGradient ==
    /\ \A n \in Ids :
          (nodes[n].op = "pow" /\ nodes[n].power >= 0) =>
              /\ nodes[n].value = IntPow(nodes[nodes[n].self].value, nodes[n].power)
              /\ Ancestors(nodes[n]) = {nodes[n].self}
    /\ (LastOp.op = "backward" /\ ZeroBefore
           /\ nodes[Root].op = "pow" /\ nodes[Root].power >= 0) =>
          LET a == nodes[nodes[Root].self].value
              p == nodes[Root].power
          IN  /\ raised = "none"
              /\ nodes[nodes[Root].self].grad =
                    (IF p = 0 THEN 0 ELSE p * IntPow(a, p - 1))

\* What the relu rules that ran in the last backward() owe the operand n: the
\* grad each relu result held when its rule ran if n.value > 0, else 0.
ReluGain(n) ==
    LET Term(k) ==
            IF /\ nodes[calls[k][1]].op = "relu"
               /\ nodes[calls[k][1]].self = n
               /\ nodes[n].value > 0
            THEN calls[k][2] ELSE 0
    IN  SumOver(1..Len(calls), Term, 0)

OnlyReluAbove(n) ==
    \A d \in Reach(nodes, Root) : n \in Ancestors(nodes[d]) => nodes[d].op = "relu"

\* C9: relu(x) has the value max(0, x); its rule adds the result's grad to the
\* operand's grad when x > 0 and 0 when x <= 0.  At x = 0 the value is 0 and
\* the operand's grad stays 0.
C9_Relu ==
    /\ \A n \in Ids :
          nodes[n].op = "relu" =>
              LET x == nodes[nodes[n].self].value
              IN  nodes[n].value = (IF x > 0 THEN x ELSE 0)
    /\ AfterBackward =>
          \A n \in Reach(nodes, Root) \ {Root} :
              OnlyReluAbove(n) => nodes[n].grad = prev[n].grad + ReluGain(n)

\* backward() on relu(x) for x = 0, grads all 0 before.
C9_Witness ==
    /\ AfterBackward /\ ZeroBefore
    /\ nodes[Root].op = "relu"
    /\ nodes[nodes[Root].self].value = 0
    /\ nodes[Root].value = 0
    /\ nodes[nodes[Root].self].grad = 0

\* ------------------------------------------------------ claims on networks

ValueOf(ns, x) == IF x.isnode THEN ns[x.v].value ELSE x.v

\* b + sum_i w_i * x_i over numbers
Affine(w, x, b) ==
    LET Term(i) == w[i] * x[i] IN SumOver(1..Len(w), Term, b)

Activated(activation, v) ==
    CASE activation = "linear" -> v
      [] activation = "relu" -> IF v > 0 THEN v ELSE 0

\* The numbers layer l gives when every layer is evaluated in order on the
\* numbers x, layer 0 being the input.
RECURSIVE LayerValues(_, _)
LayerValues(l, x) ==
    IF l = 0 THEN x
    ELSE LET below == LayerValues(l - 1, x)
         IN  [j \in 1..Len(net[l]) |->
                 Activated(net[l][j].activation,
                           Affine([i \in 1..Len(net[l][j].weights) |->
                                      nodes[net[l][j].weights[i]].value],
                                  below, nodes[net[l][j].bias].value))]

AfterForward(c) == LastOp.op = "forward" /\ LastOp.comp = c

\* C4: network(x) for x of length n_inputs, whatever the widths (a layer of
\* width 1 that is not the last included), evaluates the layers in order, each
\* on the output of the one before, and returns the last layer's output: as
\* many nodes as that layer is wide, or the one node itself for width 1.
C4_ForwardShape ==
    AfterForward(<<0, 0>>) =>
        /\ raised = "none"
        /\ LET width == Len(net[Len(net)])
               y == LayerValues(Len(net), [i \in 1..NInputs |-> ValueOf(nodes, out.x[i])])
           IN  /\ Len(out.items) = width
               /\ out.single = (width = 1)
               /\ \A j \in 1..width :
                     out.items[j].isnode /\ nodes[out.items[j].v].value = y[j]

ParameterSet(c) == {Parameters(c)[k] : k \in 1..Len(Parameters(c))}
ZeroGradStep == steps'.all = steps.all + 1 /\ hist'[Len(hist')].op = "zero_grad"

\* C6: zero_grad() on a neuron, layer or network sets grad to 0 on every node
\* its parameters() returns and changes nothing else: no value, no grad of a
\* node that is not one of those parameters, no node's linkage, and not the
\* parameter lists.  A second zero_grad() right after the first changes
\* nothing at all.
C6_ZeroGradFrame ==
    [][ZeroGradStep =>
          \A ps \in {ParameterSet(hist'[Len(hist')].comp)} :
              /\ Len(nodes') = Len(nodes)
              /\ \A i \in Ids :
                    /\ nodes'[i].grad = (IF i \in ps THEN 0 ELSE nodes[i].grad)
                    /\ [nodes'[i] EXCEPT !.grad = 0] = [nodes[i] EXCEPT !.grad = 0]
              /\ net' = net
              /\ LastOp = hist'[Len(hist')] => nodes' = nodes]_vars

\* zero_grad() on one layer or neuron of a network right after a backward():
\* a parameter of the component lost a grad, a parameter outside it and a
\* node of the forward pass kept theirs.
C6_Witness ==
    /\ Len(hist) = 2 /\ hist[1].op = "backward" /\ LastOp.op = "zero_grad"
    /\ LastOp.comp[1] # 0
    /\ \E i \in ParameterSet(LastOp.comp) : prev[i].grad # 0 /\ nodes[i].grad = 0
    /\ \E i \in ParameterSet(<<0, 0>>) \ ParameterSet(LastOp.comp) : nodes[i].grad # 0
    /\ \E i \in Ids \ ParameterSet(<<0, 0>>) : nodes[i].grad # 0

\* The neuron last called, its output node, and the numbers it was given.
CalledNeuron == net[out.comp[1]][out.comp[2]]
Output == out.items[1].v
Given == [i \in 1..Len(out.x) |-> ValueOf(nodes, out.x[i])]
WeightValues == [i \in 1..Len(CalledNeuron.weights) |-> nodes[CalledNeuron.weights[i]].value]

\* C7: a 'linear' neuron called on as many inputs as it has weights, numbers
\* or nodes, returns a node of value b + sum_i w_i * x_i; after backward() on
\* that node, the neuron's grads all 0 before, each weight's grad is the value
\* of its input and the bias grad is 1.
C7_LinearNeuron ==
    (out.comp[2] # 0 /\ CalledNeuron.activation = "linear") =>
        /\ nodes[Output].value = Affine(WeightValues, Given, nodes[CalledNeuron.bias].value)
        /\ (/\ AfterBackward /\ Root = Output
            /\ \A i \in ParameterSet(out.comp) : prev[i].grad = 0) =>
              /\ \A i \in 1..Len(CalledNeuron.weights) : nodes[CalledNeuron.weights[i]].grad = Given[i]
              /\ nodes[CalledNeuron.bias].grad = 1

\* Weights [1, -1] and bias 0 called on the numbers [1, 1]: output 0, weight
\* grads [1, 1], bias grad 1.
C7_Witness ==
    /\ AfterBackward /\ out.comp[2] # 0 /\ Root = Output
    /\ CalledNeuron.activation = "linear"
    /\ WeightValues = <<1, -1>> /\ nodes[CalledNeuron.bias].value = 0
    /\ out.x = <<Num(1), Num(1)>>
    /\ nodes[Output].value = 0
    /\ nodes[CalledNeuron.weights[1]].grad = 1 /\ nodes[CalledNeuron.weights[2]].grad = 1
    /\ nodes[CalledNeuron.bias].grad = 1

\* A network just built with the same parameter values, and the caller's
\* inputs as new: the last forward call and backward() done on those.
Fresh == [i \in 1..(NParameters + NInputs) |-> Leaf(nodes[i].value)]
FreshRun ==
    LET Back(f) == BackwardOp(f.ns, f.y.items[1].v, {})
    IN  With(MLPCall(Fresh, net, List(out.x)), Back)

\* C10: in a training loop of zero_grad(), a forward call, backward() on its
\* one output, the parameter grads after each iteration are those of the same
\* forward call and backward() on a network just built with the same
\* parameter values; no non-parameter node need be reset.
C10_IterationsIndependent ==
    (AfterBackward /\ out.items # <<>>) =>
        \A i \in 1..NParameters : nodes[i].grad = FreshRun.ns[i].grad

\* The second iteration on the same input nodes: a parameter holds a grad, an
\* input node holds more than one pass gives it, and a node of the first pass
\* still holds its grad.
C10_Witness ==
    /\ AfterBackward /\ steps.backward = 2
    /\ out.x = InputNodes
    /\ \E i \in 1..NParameters : nodes[i].grad # 0
    /\ \E i \in (NParameters + 1)..(NParameters + NInputs) :
          nodes[i].grad # FreshRun.ns[i].grad
    /\ \E i \in Ids \ Reach(nodes, Root) : i > NParameters + NInputs /\ nodes[i].grad # 0

====
